---- MODULE Spec2Model ----
(***************************************************************************)
(* Transcript acquisition of obsidian-ai-tools: the quality validator,    *)
(* the file-backed video cache, the persistent circuit breaker and the    *)
(* YouTubeClient orchestrator that composes them with provider fallback.  *)
(*                                                                         *)
(* Text is a sequence of one-character strings.  Time is counted in       *)
(* whole hours.  An optional datetime is <<>> (None) or <<t>>.            *)
(***************************************************************************)
EXTENDS Integers, Sequences, FiniteSets, TLC

\* ------------------------------------------------------------------ bounds
MaxTime == 3          \* the clock runs 0..MaxTime
MaxThreshold == 2     \* settings.circuit_breaker_threshold ranges over 1..MaxThreshold
MaxFailures == 3      \* cap on failure_count (an unbounded int in the code)
TtlHours == 1         \* settings.cache_ttl_hours of the modelled runs

\* ------------------------------------------------------- program constants
TimeoutHours == 2     \* CircuitBreaker.__init__ timeout_hours default
MinLength == 100      \* validate_transcript_quality min_length default
MinAvgTimes2 == 5     \* min_avg_word_length default 2.5, doubled to stay integral
RepetitionPct == 10   \* "most_common[1] > len(phrases) * 0.1"
ThresholdPct == 30    \* check_transcript_relevance threshold default 0.3
MinTitleWord == 2     \* "len(word) > 2"

\* ==================================================================== text
UpperToLower ==
  [ch \in {"A", "C", "T", "U", "V"} |->
     CASE ch = "A" -> "a" [] ch = "C" -> "c" [] ch = "T" -> "t"
       [] ch = "U" -> "u" [] ch = "V" -> "v"]

\* str.lower()
Lower(s) ==
  [i \in 1..Len(s) |-> IF s[i] \in DOMAIN UpperToLower THEN UpperToLower[s[i]] ELSE s[i]]

\* \s of the re module and the separators of str.split() / str.strip()
IsSpace(ch) == ch \in {" ", "\n", "\t"}

\* \w of the re module: letters, digits and the underscore
IsWordChar(ch) ==
  ch \in {"a", "b", "c", "d", "e", "f", "g", "h", "i", "j", "k", "l", "m",
          "n", "o", "p", "q", "r", "s", "t", "u", "v", "w", "x", "y", "z",
          "A", "C", "T", "U", "V",
          "0", "1", "2", "3", "4", "5", "6", "7", "8", "9", "_"}

RECURSIVE LStripSpace(_)
LStripSpace(s) ==
  IF s # <<>> /\ IsSpace(Head(s)) THEN LStripSpace(Tail(s)) ELSE s

RECURSIVE RStripSpace(_)
RStripSpace(s) ==
  IF s # <<>> /\ IsSpace(s[Len(s)]) THEN RStripSpace(SubSeq(s, 1, Len(s) - 1)) ELSE s

\* str.strip()
Strip(s) == RStripSpace(LStripSpace(s))

\* length of the maximal prefix of s[i..] whose characters satisfy the class
RECURSIVE RunLen(_, _, _)
RunLen(s, i, word) ==
  IF i > Len(s) THEN 0
  ELSE IF (word /\ IsWordChar(s[i])) \/ (~word /\ IsSpace(s[i]))
       THEN 1 + RunLen(s, i + 1, word)
       ELSE 0

\* length of the maximal prefix of s[i..] without whitespace
RECURSIVE TokenLen(_, _)
TokenLen(s, i) ==
  IF i > Len(s) \/ IsSpace(s[i]) THEN 0 ELSE 1 + TokenLen(s, i + 1)

\* str.split(): the maximal runs of non-whitespace characters
RECURSIVE SplitFrom(_, _)
SplitFrom(s, i) ==
  IF i > Len(s) THEN <<>>
  ELSE IF IsSpace(s[i]) THEN SplitFrom(s, i + 1)
  ELSE LET n == TokenLen(s, i)
       IN <<SubSeq(s, i, i + n - 1)>> \o SplitFrom(s, i + n)

Split(s) == SplitFrom(s, 1)

RECURSIVE SumLen(_)
SumLen(ws) == IF ws = <<>> THEN 0 ELSE Len(Head(ws)) + SumLen(Tail(ws))

\* re.findall(r"\b\w+\s+\w+\s+\w+\b", s): leftmost matches, scanned left to
\* right, each search resuming where the previous match ended.  A match
\* starts where a run of word characters starts and spans three such runs
\* separated by whitespace only.
RECURSIVE FindPhrasesFrom(_, _)
FindPhrasesFrom(s, i) ==
  IF i > Len(s) THEN <<>>
  ELSE IF ~IsWordChar(s[i]) THEN FindPhrasesFrom(s, i + 1)
  ELSE
    LET w1 == RunLen(s, i, TRUE)
        s1 == RunLen(s, i + w1, FALSE)
        w2 == RunLen(s, i + w1 + s1, TRUE)
        s2 == RunLen(s, i + w1 + s1 + w2, FALSE)
        w3 == RunLen(s, i + w1 + s1 + w2 + s2, TRUE)
        n  == w1 + s1 + w2 + s2 + w3
    IN IF s1 > 0 /\ w2 > 0 /\ s2 > 0 /\ w3 > 0
       THEN <<SubSeq(s, i, i + n - 1)>> \o FindPhrasesFrom(s, i + n)
       ELSE FindPhrasesFrom(s, i + w1)

FindPhrases(s) == FindPhrasesFrom(s, 1)

\* Counter(phrases).most_common(1)[0][1]
Count(seq, x) == Cardinality({ i \in 1..Len(seq) : seq[i] = x })
MostCommonCount(phrases) ==
  CHOOSE n \in 1..Len(phrases) :
    /\ \E i \in 1..Len(phrases) : Count(phrases, phrases[i]) = n
    /\ \A i \in 1..Len(phrases) : Count(phrases, phrases[i]) <= n

\* re.findall(r"\b\w+\b", s): the maximal runs of word characters
RECURSIVE FindWordsFrom(_, _)
FindWordsFrom(s, i) ==
  IF i > Len(s) THEN <<>>
  ELSE IF ~IsWordChar(s[i]) THEN FindWordsFrom(s, i + 1)
  ELSE LET n == RunLen(s, i, TRUE)
       IN <<SubSeq(s, i, i + n - 1)>> \o FindWordsFrom(s, i + n)

FindWords(s) == FindWordsFrom(s, 1)

\* "word in text": substring test
Contains(text, word) ==
  \E i \in 1..(Len(text) - Len(word) + 1) : SubSeq(text, i, i + Len(word) - 1) = word

\* " ".join(words)
RECURSIVE Join(_)
Join(ws) ==
  IF ws = <<>> THEN <<>>
  ELSE IF Len(ws) = 1 THEN Head(ws)
  ELSE Head(ws) \o <<" ">> \o Join(Tail(ws))

\* ================================================= transcript_validation.py
NoIssue == "none"

\* validate_transcript_quality(transcript, video_title): NoIssue or the issue
validate_transcript_quality(transcript, video_title) ==
  IF Len(Strip(transcript)) < MinLength THEN "too short"
  ELSE
    LET words   == Split(transcript)
        phrases == FindPhrases(Lower(transcript))
    IN IF words # <<>> /\ 2 * SumLen(words) < MinAvgTimes2 * Len(words)
       THEN "fragmented"
       ELSE IF phrases # <<>> /\ 100 * MostCommonCount(phrases) > RepetitionPct * Len(phrases)
            THEN "excessive repetition"
            ELSE NoIssue

StopWords ==
  { <<"t", "h", "e">>, <<"a">>, <<"a", "n">>, <<"a", "n", "d">>, <<"o", "r">>,
    <<"b", "u", "t">>, <<"i", "n">>, <<"o", "n">>, <<"a", "t">>, <<"t", "o">>,
    <<"f", "o", "r">>, <<"o", "f">>, <<"w", "i", "t", "h">>, <<"v", "s">>,
    <<"b", "i", "g">>, <<"n", "e", "w">> }

\* the significant words of the title
TitleWords(video_title) ==
  LET ws == FindWords(video_title)
  IN { Lower(ws[i]) : i \in { k \in 1..Len(ws) :
                               Len(ws[k]) > MinTitleWord /\ Lower(ws[k]) \notin StopWords } }

\* check_transcript_relevance(transcript, video_title)
check_transcript_relevance(transcript, video_title) ==
  LET title_words == TitleWords(video_title)
      matches     == Cardinality({ w \in title_words : Contains(Lower(transcript), w) })
  IN IF title_words = {} THEN TRUE
     ELSE 100 * matches >= ThresholdPct * Cardinality(title_words)

\* ------------------------------------------------ the texts of the modelled runs
Alphabet ==
  <<"a", "b", "c", "d", "e", "f", "g", "h", "i", "j", "k", "l", "m",
    "n", "o", "p", "q", "r", "s", "t", "u", "v", "w", "x", "y", "z">>

\* the n-letter word starting at the i-th letter
Filler(i, n) == [k \in 1..n |-> Alphabet[((i + k - 2) % 26) + 1]]

\* thirty distinct words
Fillers == [i \in 1..30 |-> IF i <= 15 THEN Filler(i, 4) ELSE Filler(i - 15, 5)]

Repeat(ws, n) == [i \in 1..(n * Len(ws)) |-> ws[((i - 1) % Len(ws)) + 1]]

\* "Cat, abcd bcde ...": long, varied, and about the cat
TGood == <<"C", "a", "t", ",", " ">> \o Join(Fillers)
\* long and varied, but mentions nothing of any title
TOff == Join(Fillers)
\* "cat sat mat cat sat mat ...": a looping caption track
TLoop == Join(Repeat(<<<<"c", "a", "t">>, <<"s", "a", "t">>, <<"m", "a", "t">>>>, 10))
\* "ab ab ab ...": decoded into fragments
TFrag == Join(Repeat(<<<<"a", "b">>>>, 40))
\* "cat video"
TShort == <<"c", "a", "t", " ", "v", "i", "d", "e", "o">>

\* the texts the transcript providers of the modelled runs return
Transcripts == {TGood, TOff, TLoop}

\* "The Cat Video"
TitleCat == <<"T", "h", "e", " ", "C", "a", "t", " ", "V", "i", "d", "e", "o">>
ChannelCats == <<"C", "a", "t", "s">>
\* "Unknown Channel"
UnknownChannel == <<"U", "n", "k", "n", "o", "w", "n", " ", "C", "h", "a", "n", "n", "e", "l">>

Id1 == <<"a", "b", "1">>
Id2 == <<"z", "9">>
VideoIds == {Id1, Id2}

\* ============================================================== youtube.py
\* A URL as urlparse and parse_qs see it: the host name, the values of the
\* query parameter v (in order) and the path.
UrlWatch1 == [hostname |-> "www.youtube.com", v |-> <<Id1>>, path |-> <<"/", "w">>]
UrlShort1 == [hostname |-> "youtu.be", v |-> <<>>, path |-> <<"/">> \o Id1]
UrlMobile2 == [hostname |-> "m.youtube.com", v |-> <<Id2, Id1>>, path |-> <<"/", "w">>]
UrlOther == [hostname |-> "example.com", v |-> <<Id1>>, path |-> <<"/">> \o Id1]
UrlNoId == [hostname |-> "youtu.be", v |-> <<Id1>>, path |-> <<"/">>]
\* the URLs the modelled requests are made with: two shapes of one video,
\* and two that name no video
Urls == {UrlWatch1, UrlShort1, UrlOther, UrlNoId}

RECURSIVE LStripSlash(_)
LStripSlash(s) == IF s # <<>> /\ Head(s) = "/" THEN LStripSlash(Tail(s)) ELSE s

\* extract_video_id(url): [ok |-> TRUE, id |-> ...] or the raised
\* InvalidYouTubeURLError as [ok |-> FALSE, id |-> <<>>]
extract_video_id(url) ==
  IF /\ url.hostname \in {"www.youtube.com", "youtube.com", "m.youtube.com"}
     /\ url.v # <<>>
     /\ url.v[1] # <<>>
  THEN [ok |-> TRUE, id |-> url.v[1]]
  ELSE IF url.hostname = "youtu.be" /\ LStripSlash(url.path) # <<>>
       THEN [ok |-> TRUE, id |-> LStripSlash(url.path)]
       ELSE [ok |-> FALSE, id |-> <<>>]

\* ====================================================== circuit_breaker.py
\* CircuitBreakerState(): the defaults of the pydantic model
FreshState ==
  [state |-> "CLOSED", failure_count |-> 0, last_failure_time |-> <<>>, opened_at |-> <<>>]

\* a datetime | None field as model_dump(mode="json") writes it
JsonTime(opt) == IF opt = <<>> THEN [kind |-> "null"] ELSE [kind |-> "str", iso |-> opt[1]]
\* and as pydantic reads it back
ParseTime(j) == IF j.kind = "null" THEN <<>> ELSE <<j.iso>>

NoFile == [kind |-> "absent"]

\* _save_state(): the content of the state file after json.dump
SaveState(s) ==
  [kind |-> "json",
   data |-> [state |-> s.state, failure_count |-> s.failure_count,
             last_failure_time |-> JsonTime(s.last_failure_time),
             opened_at |-> JsonTime(s.opened_at)]]

\* _load_state() lets the TypeError of CircuitBreakerState(**data) escape
LoadRaises(file) == file.kind = "array"

\* (mutant) every new breaker starts from the fresh state
LoadStateForgets(file) == FreshState

\* _load_state(): the state a new CircuitBreaker starts with
LoadState(file) ==
  IF file.kind = "json"
  THEN [state |-> file.data.state, failure_count |-> file.data.failure_count,
        last_failure_time |-> ParseTime(file.data.last_failure_time),
        opened_at |-> ParseTime(file.data.opened_at)]
  ELSE FreshState

\* (mutant) the move to Half-Open stays in memory
is_open_unsaved(s, t) ==
  IF s.state = "CLOSED" THEN [ret |-> FALSE, state |-> s, saved |-> FALSE]
  ELSE IF s.state = "OPEN"
       THEN IF s.opened_at # <<>> /\ t - s.opened_at[1] >= TimeoutHours
            THEN [ret |-> FALSE, state |-> [s EXCEPT !.state = "HALF_OPEN"], saved |-> FALSE]
            ELSE [ret |-> TRUE, state |-> s, saved |-> FALSE]
       ELSE [ret |-> FALSE, state |-> s, saved |-> FALSE]

\* (mutant) an Open breaker lets the request through whatever the time
is_open_no_quarantine(s, t) ==
  IF s.state = "OPEN"
  THEN [ret |-> FALSE, state |-> [s EXCEPT !.state = "HALF_OPEN"], saved |-> TRUE]
  ELSE [ret |-> FALSE, state |-> s, saved |-> FALSE]

\* is_open() at time t: the value returned, the state afterwards and whether
\* _save_state() ran
is_open(s, t) ==
  IF s.state = "CLOSED" THEN [ret |-> FALSE, state |-> s, saved |-> FALSE]
  ELSE IF s.state = "OPEN"
       THEN IF s.opened_at # <<>> /\ t - s.opened_at[1] >= TimeoutHours
            THEN [ret |-> FALSE, state |-> [s EXCEPT !.state = "HALF_OPEN"], saved |-> TRUE]
            ELSE [ret |-> TRUE, state |-> s, saved |-> FALSE]
       ELSE [ret |-> FALSE, state |-> s, saved |-> FALSE]

\* (mutant) a successful probe closes the circuit without clearing the count
record_success_closes_only(s) ==
  IF s.state = "HALF_OPEN"
  THEN [s EXCEPT !.state = "CLOSED", !.last_failure_time = <<>>, !.opened_at = <<>>]
  ELSE [s EXCEPT !.failure_count = 0, !.last_failure_time = <<>>, !.opened_at = <<>>]

\* (mutant) the failure count survives a success
record_success_keeps_count(s) ==
  [state |-> IF s.state = "HALF_OPEN" THEN "CLOSED" ELSE s.state,
   failure_count |-> s.failure_count, last_failure_time |-> <<>>, opened_at |-> <<>>]

\* record_success(): the state afterwards
record_success(s) ==
  [state |-> IF s.state = "HALF_OPEN" THEN "CLOSED" ELSE s.state,
   failure_count |-> 0, last_failure_time |-> <<>>, opened_at |-> <<>>]

\* (mutant) the threshold must be exceeded, not reached
record_failure_exceeds(s, t, T) ==
  LET counted == [s EXCEPT !.failure_count = @ + 1, !.last_failure_time = <<t>>]
  IN IF counted.state = "HALF_OPEN"
     THEN [counted EXCEPT !.state = "OPEN", !.opened_at = <<t>>]
     ELSE IF counted.failure_count > T
          THEN [counted EXCEPT !.state = "OPEN", !.opened_at = <<t>>]
          ELSE counted

\* (mutant) a failed probe reopens the circuit under its old open timestamp
record_failure_stale(s, t, T) ==
  LET counted == [s EXCEPT !.failure_count = @ + 1, !.last_failure_time = <<t>>]
  IN IF counted.state = "HALF_OPEN"
     THEN [counted EXCEPT !.state = "OPEN"]
     ELSE IF counted.failure_count >= T
          THEN [counted EXCEPT !.state = "OPEN", !.opened_at = <<t>>]
          ELSE counted

\* record_failure() at time t with failure_threshold T: the state afterwards
record_failure(s, t, T) ==
  LET counted == [s EXCEPT !.failure_count = @ + 1, !.last_failure_time = <<t>>]
  IN IF counted.state = "HALF_OPEN"
     THEN [counted EXCEPT !.state = "OPEN", !.opened_at = <<t>>]
     ELSE IF counted.failure_count >= T
          THEN [counted EXCEPT !.state = "OPEN", !.opened_at = <<t>>]
          ELSE counted

\* =================================================================== state
Clients == {"p1", "p2"}

VARIABLES
  now,        \* datetime.now(), in hours
  settings,   \* the Settings object every client is built from
  cbFile,     \* cache_dir/circuit_breaker_state.json
  cacheFiles, \* cache_dir/youtube/{video_id}.json, by video id
  cb,         \* per client: circuit_breaker.state, the in-memory breaker state
  pc,         \* per client: where its get_video_metadata call stands
  req,        \* per client: the locals of its get_video_metadata call
  out,        \* per client: what its last get_video_metadata call returned or raised
  trace,      \* history, per client: the provider attempts of its current call,
              \* each with its outcome: "skipped" (breaker open), "unconfigured",
              \* "raised" or "returned" (the last two are calls of the provider)
  hist,       \* history, per client: the calls made on its breaker (see NoHist)
  ingest,     \* per client: where its YouTubeProvider.ingest() call stands
  sets        \* history, by video id: the arguments and time of the
              \* VideoCache.set call that wrote the entry now stored, if any

vars == <<now, settings, cbFile, cacheFiles, cb, pc, req, out, trace, hist, ingest, sets>>

\* ================================================================ cache.py
\* (mutant) the provider argument is written over the result's provider_used
CacheSetTagsResult(metadata, provider, t) ==
  [kind |-> "json",
   data |-> [metadata |-> [metadata EXCEPT !.provider_used = provider],
             cached_at |-> JsonTime(<<t>>), provider |-> provider]]

\* VideoCache.set(video_id, metadata, provider) at time t: the file written
CacheSet(metadata, provider, t) ==
  [kind |-> "json",
   data |-> [metadata |-> metadata, cached_at |-> JsonTime(<<t>>), provider |-> provider]]

\* what a file of the cache directory or the breaker's state file can hold
\* besides a record the program wrote ("json"): text that json.load rejects
\* (garbage, a truncated write), a JSON object that is not a valid record
\* (pydantic's ValidationError, a ValueError), and a JSON value that is not
\* an object (a list, a number, null), which `**data` rejects with TypeError
Unparsable == [kind |-> "text"]
WrongFields == [kind |-> "object"]
NotAnObject == [kind |-> "array"]
DamagedFiles == {Unparsable, WrongFields, NotAnObject}

\* the history entry of set(video_id, metadata, provider) called now
SetCall(metadata, provider) == <<[metadata |-> metadata, provider |-> provider, at |-> now]>>

\* (mutant) an entry expires as soon as its age reaches the TTL
CacheGetExpiresEarly(file, t) ==
  IF file.kind = "absent" THEN [ret |-> <<>>, file |-> file, raised |-> ""]
  ELSE IF file.kind = "array" THEN [ret |-> <<>>, file |-> file, raised |-> "TypeError"]
  ELSE IF file.kind # "json" THEN [ret |-> <<>>, file |-> NoFile, raised |-> ""]
  ELSE IF t - ParseTime(file.data.cached_at)[1] >= settings.cache_ttl_hours
       THEN [ret |-> <<>>, file |-> NoFile, raised |-> ""]
       ELSE [ret |-> <<file.data.metadata>>, file |-> file, raised |-> ""]

\* VideoCache.get(video_id) at time t on the file of that id: the value
\* returned (<<>> for None, <<metadata>> for a hit), the file afterwards and
\* the exception that escapes, if any
CacheGet(file, t) ==
  IF file.kind = "absent" THEN [ret |-> <<>>, file |-> file, raised |-> ""]
  ELSE IF file.kind = "array" THEN [ret |-> <<>>, file |-> file, raised |-> "TypeError"]
  ELSE IF file.kind # "json" THEN [ret |-> <<>>, file |-> NoFile, raised |-> ""]
  ELSE IF t - ParseTime(file.data.cached_at)[1] > settings.cache_ttl_hours
       THEN [ret |-> <<>>, file |-> NoFile, raised |-> ""]
       ELSE [ret |-> <<file.data.metadata>>, file |-> file, raised |-> ""]

\* the configurations of the modelled runs: which API keys are present
KeySets ==
  { [supadata_key |-> TRUE, decodo_api_key |-> TRUE, youtube_api_key |-> TRUE],
    [supadata_key |-> TRUE, decodo_api_key |-> FALSE, youtube_api_key |-> FALSE] }

NoRequest ==
  [url |-> UrlOther, video_id |-> <<>>, order |-> <<>>, idx |-> 0, errors |-> <<>>,
   title |-> <<>>, channel_name |-> <<>>, transcript |-> <<>>, language |-> "", provider |-> ""]

NoOutcome == [kind |-> "none"]

\* no ingest() call is running
\* (attempts: the attempts begun; last: what the previous attempt raised;
\* exhausted: the earlier attempts in which every provider failed; fresh: the
\* breaker's state file held no failure when ingest() was called)
NoIngest ==
  [status |-> "none", attempts |-> 0, url |-> UrlOther, order |-> <<>>, last |-> NoOutcome,
   exhausted |-> 0, fresh |-> TRUE]

\* The history of a breaker covers the calls made on it since it was
\* constructed or, in a client, since the client's current request began.
\* op: the last method called; ret: what is_open() returned if that was the
\* last call; at: when the last call was made; prev: the mode before the
\* last call; run: the record_failure() calls since the last
\* record_success() or reset(); fresh: the history began at (or reset() has
\* since restored) the state CircuitBreakerState(), and no record_success()
\* was called since; entered: when the breaker last went from another mode
\* to OPEN, kept until it is CLOSED again
NoHist ==
  [op |-> "none", ret |-> FALSE, at |-> 0, prev |-> "CLOSED", run |-> 0, fresh |-> TRUE,
   entered |-> <<>>]

\* the history when a client starts on the breaker state s: the failures
\* since the last success are the ones s counts
HistOf(s) ==
  [NoHist EXCEPT !.fresh = (s = FreshState),
                 !.run = s.failure_count,
                 !.entered = IF s.state = "CLOSED" THEN <<>> ELSE s.opened_at]

\* the history after the call op on client c's breaker left it in state s
Called(c, op, ret, run, fresh, s) ==
  [op |-> op, ret |-> ret, at |-> now, prev |-> cb[c].state, run |-> run, fresh |-> fresh,
   entered |-> IF s.state = "CLOSED" THEN <<>>
               ELSE IF s.state = "OPEN" /\ cb[c].state # "OPEN" THEN <<now>>
               ELSE hist[c].entered]

Init ==
  /\ now = 0
  /\ settings \in { [circuit_breaker_threshold |-> T, keys |-> k,
                       cache_ttl_hours |-> TtlHours] :
                      T \in 1..MaxThreshold, k \in KeySets }
  /\ cbFile = NoFile
  /\ cacheFiles = [id \in VideoIds |-> NoFile]
  /\ cb = [c \in Clients |-> LoadState(NoFile)]
  /\ pc = [c \in Clients |-> "idle"]
  /\ req = [c \in Clients |-> NoRequest]
  /\ out = [c \in Clients |-> NoOutcome]
  /\ trace = [c \in Clients |-> <<>>]
  /\ hist = [c \in Clients |-> NoHist]
  /\ ingest = [c \in Clients |-> NoIngest]
  /\ sets = [id \in VideoIds |-> <<>>]

\* the clock advances
Tick ==
  /\ now < MaxTime
  /\ now' = now + 1
  /\ UNCHANGED <<settings, cbFile, cacheFiles, cb, pc, req, out, trace, hist, ingest, sets>>

\* ------------------------------------------- the breaker's public methods
\* each call on client c's breaker, with what it leaves in memory and on disk
BreakerIsOpen(c) ==
  LET r == is_open(cb[c], now)
  IN /\ cb' = [cb EXCEPT ![c] = r.state]
     /\ cbFile' = IF r.saved THEN SaveState(r.state) ELSE cbFile
     /\ hist' = [hist EXCEPT ![c] = Called(c, "is_open", r.ret, @.run, @.fresh, r.state)]

BreakerRecordSuccess(c) ==
  LET s == record_success(cb[c])
  IN /\ cb' = [cb EXCEPT ![c] = s]
     /\ cbFile' = SaveState(s)
     /\ hist' = [hist EXCEPT ![c] = Called(c, "record_success", FALSE, 0, FALSE, s)]

BreakerRecordFailure(c) ==
  LET s == record_failure(cb[c], now, settings.circuit_breaker_threshold)
  IN /\ cb[c].failure_count < MaxFailures
     /\ cb' = [cb EXCEPT ![c] = s]
     /\ cbFile' = SaveState(s)
     /\ hist' = [hist EXCEPT ![c] = Called(c, "record_failure", FALSE, @.run + 1, @.fresh, s)]

\* reset()
BreakerReset(c) ==
  /\ cb' = [cb EXCEPT ![c] = FreshState]
  /\ cbFile' = SaveState(FreshState)
  /\ hist' = [hist EXCEPT ![c] = Called(c, "reset", FALSE, 0, TRUE, FreshState)]

\* ------------------- the breaker alone, driven through its public methods
ApiClient == "p1"

ApiIsOpen ==
  /\ BreakerIsOpen(ApiClient)
  /\ UNCHANGED <<now, settings, cacheFiles, pc, req, out, trace, ingest, sets>>

ApiRecordSuccess ==
  /\ BreakerRecordSuccess(ApiClient)
  /\ UNCHANGED <<now, settings, cacheFiles, pc, req, out, trace, ingest, sets>>

ApiRecordFailure ==
  /\ BreakerRecordFailure(ApiClient)
  /\ UNCHANGED <<now, settings, cacheFiles, pc, req, out, trace, ingest, sets>>

ApiReset ==
  /\ BreakerReset(ApiClient)
  /\ UNCHANGED <<now, settings, cacheFiles, pc, req, out, trace, ingest, sets>>

\* ============================================== youtube.py: YouTubeClient
ProviderNames == {"direct", "supadata", "decodo"}
\* "provider_name in provider_map"
IsKnown(name) == name \in ProviderNames

\* settings.youtube_transcript_provider_order, "direct,supadata,decodo"
DefaultOrder == <<"direct", "supadata", "decodo">>

\* p.strip() of one comma-separated piece of the order string
StripName(piece) ==
  CASE piece = " supadata" -> "supadata"
    [] piece = "decodo " -> "decodo"
    [] OTHER -> piece

\* the provider_order argument, as its comma-separated pieces; <<>> is None
\* (and the empty string, which is falsy as well)
OrderOverrides ==
  { <<>>, <<" supadata", "direct">>, <<"direct", "bogus", "decodo ">>, <<"bogus">> }

\* providers_to_try
ProvidersToTry(provider_order) ==
  IF provider_order = <<>> THEN DefaultOrder
  ELSE [i \in 1..Len(provider_order) |-> StripName(provider_order[i])]

\* what a provider's fetch_transcript can do: return (text, language) or
\* raise TranscriptUnavailableError(message)
Returned(t, l) == [ok |-> TRUE, transcript |-> t, language |-> l, message |-> ""]
Raised(m) == [ok |-> FALSE, transcript |-> <<>>, language |-> "", message |-> m]

DirectOutcomes ==
  { Raised("No transcript available") } \cup { Returned(t, "de") : t \in Transcripts }
SupadataOutcomes ==
  { Raised("Empty transcript from Supadata") } \cup { Returned(t, "en") : t \in Transcripts }
DecodoOutcomes ==
  { Raised("No transcript content found in Decodo response"), Returned(TGood, "en") }

\* what the metadata provider's fetch_metadata can do
MetaReturned(t, ch) == [ok |-> TRUE, title |-> t, channel_name |-> ch]
MetaRaised == [ok |-> FALSE, title |-> <<>>, channel_name |-> <<>>]
MetaOutcomes == { MetaRaised, MetaReturned(TitleCat, ChannelCats) }

\* the title _fetch_metadata falls back to
PlaceholderTitle(video_id) == <<"V", "i", "d", "e", "o", " ">> \o video_id

\* _fetch_metadata(video_id), given what the metadata provider would do:
\* the dictionary returned and whether the provider was called
fetch_metadata(video_id, keys, meta) ==
  IF keys.youtube_api_key /\ meta.ok
  THEN [title |-> meta.title, channel_name |-> meta.channel_name, called |-> TRUE]
  ELSE [title |-> PlaceholderTitle(video_id),
        channel_name |-> UnknownChannel, called |-> keys.youtube_api_key]

\* f"{provider_name}: {e}"
ErrorEntry(provider_name, message) == provider_name \o ": " \o message

\* "; ".join(errors)
RECURSIVE JoinErrors(_)
JoinErrors(errors) ==
  IF errors = <<>> THEN ""
  ELSE IF Len(errors) = 1 THEN errors[1]
  ELSE errors[1] \o "; " \o JoinErrors(Tail(errors))

\* what get_video_metadata returned or raised
ReturnedResult(r) == [kind |-> "ok", reason |-> "", text |-> "", result |-> <<r>>]
RaisedError(kind, reason, text) ==
  [kind |-> kind, reason |-> reason, text |-> text, result |-> <<>>]

\* YouTubeClient(settings): a new client, whose breaker loads the state file;
\* when that raises there is no client ("new") until one is constructed
Construct(c) ==
  /\ pc[c] \in {"idle", "new"}
  /\ IF LoadRaises(cbFile)
     THEN /\ pc' = [pc EXCEPT ![c] = "new"]
          /\ out' = [out EXCEPT ![c] = RaisedError("TypeError", "", "")]
          /\ UNCHANGED <<cb, hist>>
     ELSE /\ pc' = [pc EXCEPT ![c] = "idle"]
          /\ out' = [out EXCEPT ![c] = NoOutcome]
          /\ cb' = [cb EXCEPT ![c] = LoadState(cbFile)]
          /\ hist' = [hist EXCEPT ![c] = HistOf(LoadState(cbFile))]
  /\ UNCHANGED <<now, settings, cbFile, cacheFiles, req, trace, ingest, sets>>

\* get_video_metadata(url, provider_order) up to the fallback loop: the id
\* is extracted, the cache consulted and, on a miss, the metadata fetched
GetVideoMetadata(c, url, provider_order, meta) ==
  LET parsed == extract_video_id(url)
      video_id == parsed.id
      cached == CacheGet(cacheFiles[video_id], now)
      md == fetch_metadata(video_id, settings.keys, meta)
  IN
  /\ pc[c] = "idle"
  /\ IF ~parsed.ok
     THEN /\ out' = [out EXCEPT ![c] = RaisedError("InvalidYouTubeURLError", "", "")]
          /\ req' = [req EXCEPT ![c] = [NoRequest EXCEPT !.url = url]]
          /\ trace' = [trace EXCEPT ![c] = <<>>]
          /\ pc' = [pc EXCEPT ![c] = "done"]
          /\ UNCHANGED <<cacheFiles, sets>>
     ELSE IF cached.raised # ""
     THEN /\ out' = [out EXCEPT ![c] = RaisedError(cached.raised, "", "")]
          /\ req' = [req EXCEPT ![c] = [NoRequest EXCEPT !.url = url, !.video_id = video_id]]
          /\ trace' = [trace EXCEPT ![c] = <<>>]
          /\ pc' = [pc EXCEPT ![c] = "done"]
          /\ UNCHANGED <<cacheFiles, sets>>
     ELSE /\ cacheFiles' = [cacheFiles EXCEPT ![video_id] = cached.file]
          /\ sets' = [sets EXCEPT ![video_id] = IF cached.file = NoFile THEN <<>> ELSE @]
          /\ IF cached.ret # <<>>
             THEN /\ out' = [out EXCEPT ![c] = ReturnedResult(cached.ret[1])]
                  /\ req' = [req EXCEPT ![c] =
                               [NoRequest EXCEPT !.url = url, !.video_id = video_id]]
                  /\ trace' = [trace EXCEPT ![c] = <<>>]
                  /\ pc' = [pc EXCEPT ![c] = "done"]
             ELSE /\ out' = [out EXCEPT ![c] = NoOutcome]
                  /\ req' = [req EXCEPT ![c] =
                               [NoRequest EXCEPT !.url = url, !.video_id = video_id,
                                                 !.order = ProvidersToTry(provider_order),
                                                 !.idx = 1,
                                                 !.title = md.title,
                                                 !.channel_name = md.channel_name]]
                  /\ trace' = [trace EXCEPT ![c] =
                                 IF md.called
                                 THEN <<[p |-> "youtube_api", ev |-> "metadata", msg |-> ""]>>
                                 ELSE <<>>]
                  /\ pc' = [pc EXCEPT ![c] = "loop"]
  /\ UNCHANGED <<now, settings, cbFile, cb, hist, ingest>>

\* the provider the loop of _fetch_transcript_with_fallback stands at
InLoop(c) == pc[c] = "loop" /\ req[c].idx <= Len(req[c].order)
Current(c) == req[c].order[req[c].idx]

\* (mutant) the error list holds the last failure only
FailedOverwrites(c, message, ev) ==
  /\ req' = [req EXCEPT ![c] = [@ EXCEPT !.errors = <<ErrorEntry(Current(c), message)>>,
                                         !.idx = @ + 1]]
  /\ trace' = [trace EXCEPT ![c] = Append(@, [p |-> Current(c), ev |-> ev, msg |-> message])]
  /\ pc' = [pc EXCEPT ![c] = "loop"]

\* the except branch of the loop: the error is appended, the loop goes on
Failed(c, message, ev) ==
  /\ req' = [req EXCEPT ![c] = [@ EXCEPT !.errors = Append(@, ErrorEntry(Current(c), message)),
                                         !.idx = @ + 1]]
  /\ trace' = [trace EXCEPT ![c] = Append(@, [p |-> Current(c), ev |-> ev, msg |-> message])]
  /\ pc' = [pc EXCEPT ![c] = "loop"]

\* (mutant) the transcript is kept but the loop goes on to the next provider
SucceededKeepsGoing(c, res) ==
  /\ req' = [req EXCEPT ![c] = [@ EXCEPT !.transcript = res.transcript,
                                         !.language = res.language,
                                         !.provider = Current(c),
                                         !.idx = @ + 1]]
  /\ trace' = [trace EXCEPT ![c] = Append(@, [p |-> Current(c), ev |-> "returned", msg |-> ""])]
  /\ pc' = [pc EXCEPT ![c] = "loop"]

\* the return inside the loop: first success wins
Succeeded(c, res) ==
  /\ req' = [req EXCEPT ![c] = [@ EXCEPT !.transcript = res.transcript,
                                         !.language = res.language,
                                         !.provider = Current(c)]]
  /\ trace' = [trace EXCEPT ![c] = Append(@, [p |-> Current(c), ev |-> "returned", msg |-> ""])]
  /\ pc' = [pc EXCEPT ![c] = "validate"]

\* (mutant) an unknown name is recorded as a failed provider
SkipUnknownRecords(c) ==
  /\ InLoop(c)
  /\ Current(c) \notin ProviderNames
  /\ Failed(c, "unknown provider", "unknown")
  /\ UNCHANGED <<now, settings, cbFile, cacheFiles, cb, out, hist, ingest, sets>>

\* "Unknown provider ..., skipping"
SkipUnknown(c) ==
  /\ InLoop(c)
  /\ Current(c) \notin ProviderNames
  /\ req' = [req EXCEPT ![c] = [@ EXCEPT !.idx = @ + 1]]
  /\ UNCHANGED <<now, settings, cbFile, cacheFiles, cb, pc, out, trace, hist, ingest, sets>>

\* _try_direct_provider up to the provider call: the breaker is asked
TryDirectGate(c) ==
  /\ InLoop(c)
  /\ Current(c) = "direct"
  /\ BreakerIsOpen(c)
  /\ IF is_open(cb[c], now).ret
     THEN Failed(c, "circuit breaker open", "skipped")
     ELSE /\ pc' = [pc EXCEPT ![c] = "direct"]
          /\ UNCHANGED <<req, trace>>
  /\ UNCHANGED <<now, settings, cacheFiles, out, ingest, sets>>

\* (mutant) a transcript from the direct provider is returned without
\* record_success()
TryDirectFetchUnrecorded(c, res) ==
  /\ pc[c] = "direct"
  /\ IF res.ok
     THEN Succeeded(c, res) /\ UNCHANGED <<cb, cbFile, hist>>
     ELSE BreakerRecordFailure(c) /\ Failed(c, res.message, "raised")
  /\ UNCHANGED <<now, settings, cacheFiles, out, ingest, sets>>

\* _try_direct_provider from the provider call on: the outcome is recorded
TryDirectFetch(c, res) ==
  /\ pc[c] = "direct"
  /\ IF res.ok
     THEN BreakerRecordSuccess(c) /\ Succeeded(c, res)
     ELSE BreakerRecordFailure(c) /\ Failed(c, res.message, "raised")
  /\ UNCHANGED <<now, settings, cacheFiles, out, ingest, sets>>

\* _try_supadata_provider
TrySupadata(c, res) ==
  /\ InLoop(c)
  /\ Current(c) = "supadata"
  /\ IF ~settings.keys.supadata_key
     THEN Failed(c, "Supadata provider not configured (missing API key)", "unconfigured")
     ELSE IF res.ok THEN Succeeded(c, res) ELSE Failed(c, res.message, "raised")
  /\ UNCHANGED <<now, settings, cbFile, cacheFiles, cb, out, hist, ingest, sets>>

\* _try_decodo_provider
TryDecodo(c, res) ==
  /\ InLoop(c)
  /\ Current(c) = "decodo"
  /\ IF ~settings.keys.decodo_api_key
     THEN Failed(c, "Decodo provider not configured (missing API key)", "unconfigured")
     ELSE IF res.ok THEN Succeeded(c, res) ELSE Failed(c, res.message, "raised")
  /\ UNCHANGED <<now, settings, cbFile, cacheFiles, cb, out, hist, ingest, sets>>

\* the raise after the loop: "All providers failed for {video_id}: ..."
Exhausted(c) ==
  /\ pc[c] = "loop"
  /\ req[c].idx > Len(req[c].order)
  /\ out' = [out EXCEPT ![c] =
               RaisedError("TranscriptUnavailableError", "All providers failed",
                           JoinErrors(req[c].errors))]
  /\ pc' = [pc EXCEPT ![c] = "done"]
  /\ UNCHANGED <<now, settings, cbFile, cacheFiles, cb, req, trace, hist, ingest, sets>>

\* VideoMetadata(...) as get_video_metadata builds it
BuildResult(r) ==
  [video_id |-> r.video_id, title |-> r.title, channel_name |-> r.channel_name,
   url |-> r.url, transcript |-> r.transcript, source_language |-> r.language,
   provider_used |-> r.provider]

\* (mutant) the result is cached before it is checked
ValidateCachesFirst(c) ==
  LET quality_issue == validate_transcript_quality(req[c].transcript, req[c].title)
      result == BuildResult(req[c])
  IN
  /\ pc[c] = "validate"
  /\ pc' = [pc EXCEPT ![c] = "done"]
  /\ cacheFiles' = [cacheFiles EXCEPT ![req[c].video_id] =
                      CacheSet(result, req[c].provider, now)]
  /\ sets' = [sets EXCEPT ![req[c].video_id] = SetCall(result, req[c].provider)]
  /\ IF quality_issue # NoIssue
     THEN out' = [out EXCEPT ![c] =
                    RaisedError("TranscriptUnavailableError",
                                "Transcript quality too low", quality_issue)]
     ELSE IF ~check_transcript_relevance(req[c].transcript, req[c].title)
          THEN out' = [out EXCEPT ![c] =
                         RaisedError("TranscriptUnavailableError",
                                     "Transcript content does not match video title", "")]
          ELSE out' = [out EXCEPT ![c] = ReturnedResult(result)]
  /\ UNCHANGED <<now, settings, cbFile, cb, req, trace, hist, ingest>>

\* (mutant) a result that passes the checks is returned without being cached
ValidateReturnsUncached(c) ==
  LET quality_issue == validate_transcript_quality(req[c].transcript, req[c].title)
      result == BuildResult(req[c])
  IN
  /\ pc[c] = "validate"
  /\ pc' = [pc EXCEPT ![c] = "done"]
  /\ IF quality_issue # NoIssue
     THEN out' = [out EXCEPT ![c] =
                    RaisedError("TranscriptUnavailableError",
                                "Transcript quality too low", quality_issue)]
     ELSE IF ~check_transcript_relevance(req[c].transcript, req[c].title)
          THEN out' = [out EXCEPT ![c] =
                         RaisedError("TranscriptUnavailableError",
                                     "Transcript content does not match video title", "")]
          ELSE out' = [out EXCEPT ![c] = ReturnedResult(result)]
  /\ UNCHANGED <<now, settings, cbFile, cacheFiles, cb, req, trace, hist, ingest, sets>>

\* (mutant) a rejected transcript counts as a failure of its provider
ValidateCountsRejection(c) ==
  LET quality_issue == validate_transcript_quality(req[c].transcript, req[c].title)
      result == BuildResult(req[c])
  IN
  /\ pc[c] = "validate"
  /\ pc' = [pc EXCEPT ![c] = "done"]
  /\ IF quality_issue # NoIssue
     THEN /\ out' = [out EXCEPT ![c] =
                       RaisedError("TranscriptUnavailableError",
                                   "Transcript quality too low", quality_issue)]
          /\ BreakerRecordFailure(c)
          /\ UNCHANGED <<cacheFiles, sets>>
     ELSE IF ~check_transcript_relevance(req[c].transcript, req[c].title)
          THEN /\ out' = [out EXCEPT ![c] =
                            RaisedError("TranscriptUnavailableError",
                                        "Transcript content does not match video title", "")]
               /\ BreakerRecordFailure(c)
               /\ UNCHANGED <<cacheFiles, sets>>
          ELSE /\ out' = [out EXCEPT ![c] = ReturnedResult(result)]
               /\ cacheFiles' = [cacheFiles EXCEPT ![req[c].video_id] =
                                   CacheSet(result, req[c].provider, now)]
               /\ sets' = [sets EXCEPT ![req[c].video_id] =
                             SetCall(result, req[c].provider)]
               /\ UNCHANGED <<cbFile, cb, hist>>
  /\ UNCHANGED <<now, settings, req, trace, ingest>>

\* get_video_metadata after the loop: the quality gate, then the cache write
Validate(c) ==
  LET quality_issue == validate_transcript_quality(req[c].transcript, req[c].title)
      result == BuildResult(req[c])
  IN
  /\ pc[c] = "validate"
  /\ pc' = [pc EXCEPT ![c] = "done"]
  /\ IF quality_issue # NoIssue
     THEN /\ out' = [out EXCEPT ![c] =
                       RaisedError("TranscriptUnavailableError",
                                   "Transcript quality too low", quality_issue)]
          /\ UNCHANGED <<cacheFiles, sets>>
     ELSE IF ~check_transcript_relevance(req[c].transcript, req[c].title)
          THEN /\ out' = [out EXCEPT ![c] =
                            RaisedError("TranscriptUnavailableError",
                                        "Transcript content does not match video title", "")]
               /\ UNCHANGED <<cacheFiles, sets>>
          ELSE /\ out' = [out EXCEPT ![c] = ReturnedResult(result)]
               /\ cacheFiles' = [cacheFiles EXCEPT ![req[c].video_id] =
                                   CacheSet(result, req[c].provider, now)]
               /\ sets' = [sets EXCEPT ![req[c].video_id] =
                             SetCall(result, req[c].provider)]
  /\ UNCHANGED <<now, settings, cbFile, cb, req, trace, hist, ingest>>

\* the caller takes what get_video_metadata returned or raised: the frame
\* of the call is gone and the client can be called again
Return(c) ==
  /\ pc[c] = "done"
  /\ pc' = [pc EXCEPT ![c] = "idle"]
  /\ req' = [req EXCEPT ![c] = NoRequest]
  /\ out' = [out EXCEPT ![c] = NoOutcome]
  /\ trace' = [trace EXCEPT ![c] = <<>>]
  /\ hist' = [hist EXCEPT ![c] = HistOf(cb[c])]
  /\ UNCHANGED <<now, settings, cbFile, cacheFiles, cb, ingest, sets>>

\* CircuitBreaker(state_file, ...) in a new process, on the same state file
ApiRestart == Construct(ApiClient)

NextCB ==
  \/ ApiIsOpen \/ ApiRecordSuccess \/ ApiRecordFailure \/ ApiReset \/ ApiRestart \/ Tick

SpecCB == Init /\ [][NextCB]_vars

\* ------------------------- one request at a time, a process per invocation
Runner == "p1"

Restart == Construct(Runner)
Call == \E url \in Urls, po \in OrderOverrides, meta \in MetaOutcomes :
          GetVideoMetadata(Runner, url, po, meta)
Unknown == SkipUnknown(Runner)
DirectGate == TryDirectGate(Runner)
DirectFetch == \E res \in DirectOutcomes : TryDirectFetch(Runner, res)
Supadata == \E res \in SupadataOutcomes : TrySupadata(Runner, res)
Decodo == \E res \in DecodoOutcomes : TryDecodo(Runner, res)
AllFailed == Exhausted(Runner)
QualityGate == Validate(Runner)
Done == Return(Runner)

Next ==
  \/ Restart \/ Call \/ Unknown \/ DirectGate \/ DirectFetch
  \/ Supadata \/ Decodo \/ AllFailed \/ QualityGate \/ Done \/ Tick

Spec == Init /\ [][Next]_vars

\* ------- the same, started on a cache directory whose files are damaged
\* no client exists yet; the breaker's state file and the cache entry of
\* the video asked for hold something that is not a record
InitStored ==
  /\ now = 0
  /\ settings \in { [circuit_breaker_threshold |-> T, keys |-> k,
                       cache_ttl_hours |-> TtlHours] :
                      T \in 1..MaxThreshold, k \in KeySets }
  /\ cbFile \in {NoFile} \cup DamagedFiles
  /\ cacheFiles \in { [id \in VideoIds |-> IF id = Id1 THEN f ELSE NoFile] :
                        f \in {NoFile} \cup DamagedFiles }
  /\ cb = [c \in Clients |-> FreshState]
  /\ pc = [c \in Clients |-> "new"]
  /\ req = [c \in Clients |-> NoRequest]
  /\ out = [c \in Clients |-> NoOutcome]
  /\ trace = [c \in Clients |-> <<>>]
  /\ hist = [c \in Clients |-> NoHist]
  /\ ingest = [c \in Clients |-> NoIngest]
  /\ sets = [id \in VideoIds |-> <<>>]

SpecStored == InitStored /\ [][Next]_vars

\* --------------- two clients (two processes) sharing the cache directory,
\* each asking for the same video from the direct provider alone
ConcUrl == UrlWatch1
ConcOrder == <<"direct">>
ConcOutcomes == { Raised("No transcript available"), Returned(TGood, "de") }

ConcStart == \E c \in Clients : Construct(c)
ConcCall == \E c \in Clients, meta \in MetaOutcomes : GetVideoMetadata(c, ConcUrl, ConcOrder, meta)
ConcGate == \E c \in Clients : TryDirectGate(c)
ConcFetch == \E c \in Clients, res \in ConcOutcomes : TryDirectFetch(c, res)
ConcAllFailed == \E c \in Clients : Exhausted(c)
ConcQualityGate == \E c \in Clients : Validate(c)
ConcDone == \E c \in Clients : Return(c)

NextConc ==
  \/ ConcStart \/ ConcCall \/ ConcGate \/ ConcFetch
  \/ ConcAllFailed \/ ConcQualityGate \/ ConcDone \/ Tick

SpecConc == Init /\ [][NextConc]_vars

\* ------------- providers/base.py, providers/youtube.py: ingest(), the retry
\* wrapper around one acquisition per attempt
\* stop_after_attempt(3)
StopAfterAttempt == 3

\* retry_if_not_exception_type((ValueError, FileNotFoundError, IsADirectoryError))
NotRetried == {"ValueError", "FileNotFoundError", "IsADirectoryError"}

\* the classes an exception of the modelled kinds is an instance of
Bases(kind) ==
  IF kind \in {"InvalidYouTubeURLError", "TranscriptUnavailableError"}
  THEN {kind, "TranscriptError", "Exception"}
  ELSE {kind, "Exception"}

\* the retry predicate: the exception is an instance of none of the three
ShouldRetry(kind) == Bases(kind) \cap NotRetried = {}

\* ingest(source, provider_order=...) is called: the first attempt begins
IngestStart(c, url, provider_order) ==
  /\ ingest[c].status # "running"
  /\ pc[c] \in {"idle", "new"}
  /\ ingest' = [ingest EXCEPT ![c] =
                  [status |-> "running", attempts |-> 1, url |-> url,
                   order |-> provider_order, last |-> NoOutcome, exhausted |-> 0,
                   fresh |-> (LoadState(cbFile) = FreshState)]]
  /\ pc' = [pc EXCEPT ![c] = "new"]
  /\ req' = [req EXCEPT ![c] = NoRequest]
  /\ out' = [out EXCEPT ![c] = NoOutcome]
  /\ trace' = [trace EXCEPT ![c] = <<>>]
  /\ UNCHANGED <<now, settings, cbFile, cacheFiles, cb, hist, sets>>

\* _ingest: client = YouTubeClient()
IngestConstruct(c) ==
  /\ ingest[c].status = "running"
  /\ pc[c] = "new"
  /\ out[c] = NoOutcome
  /\ Construct(c)

\* _ingest: client.get_video_metadata(source, provider_order=...)
IngestCall(c, meta) ==
  /\ ingest[c].status = "running"
  /\ GetVideoMetadata(c, ingest[c].url, ingest[c].order, meta)

\* the attempt returned or raised: tenacity returns the result, re-raises
\* the exception (reraise=True) or, after the wait, begins the next attempt
IngestOutcome(c) ==
  /\ ingest[c].status = "running"
  /\ pc[c] = "done" \/ (pc[c] = "new" /\ out[c] # NoOutcome)
  /\ IF out[c].kind = "ok"
     THEN /\ ingest' = [ingest EXCEPT ![c] = [@ EXCEPT !.status = "returned"]]
          /\ pc' = [pc EXCEPT ![c] = "idle"]
          /\ UNCHANGED <<req, out, trace>>
     ELSE IF ShouldRetry(out[c].kind) /\ ingest[c].attempts < StopAfterAttempt
     THEN /\ ingest' = [ingest EXCEPT ![c] =
                          [@ EXCEPT !.attempts = @ + 1,
                                    !.last = [kind |-> out[c].kind,
                                              reason |-> out[c].reason],
                                    !.exhausted =
                                      IF out[c].reason = "All providers failed"
                                      THEN @ + 1 ELSE @]]
          /\ pc' = [pc EXCEPT ![c] = "new"]
          /\ req' = [req EXCEPT ![c] = NoRequest]
          /\ out' = [out EXCEPT ![c] = NoOutcome]
          /\ trace' = [trace EXCEPT ![c] = <<>>]
     ELSE /\ ingest' = [ingest EXCEPT ![c] = [@ EXCEPT !.status = "raised"]]
          /\ pc' = [pc EXCEPT ![c] = "idle"]
          /\ UNCHANGED <<req, out, trace>>
  /\ hist' = [hist EXCEPT ![c] = HistOf(cb[c])]
  /\ UNCHANGED <<now, settings, cbFile, cacheFiles, cb, sets>>

\* the sources ingest() is called with: a video's URL and one that passes
\* validate() (its host is youtu.be) but names no video
IngestUrls == {UrlWatch1, UrlNoId}
\* None (no provider_order keyword) and an override
IngestOrders == { <<>>, <<" supadata", "direct">> }

Ingest == \E url \in IngestUrls, po \in IngestOrders : IngestStart(Runner, url, po)
IngestClient == IngestConstruct(Runner)
IngestAttempt == \E meta \in MetaOutcomes : IngestCall(Runner, meta)
IngestResult == IngestOutcome(Runner)

NextIngest ==
  \/ Ingest \/ IngestClient \/ IngestAttempt \/ DirectGate \/ DirectFetch
  \/ Supadata \/ Decodo \/ AllFailed \/ QualityGate \/ IngestResult \/ Tick

\* every provider is configured
IngestKeys == [supadata_key |-> TRUE, decodo_api_key |-> TRUE, youtube_api_key |-> TRUE]

\* as Init, the thresholds being those the attempts of one call can reach
InitIngest ==
  /\ now = 0
  /\ settings \in { [circuit_breaker_threshold |-> T, keys |-> IngestKeys,
                       cache_ttl_hours |-> TtlHours] :
                      T \in 1..StopAfterAttempt }
  /\ cbFile = NoFile
  /\ cacheFiles = [id \in VideoIds |-> NoFile]
  /\ cb = [c \in Clients |-> LoadState(NoFile)]
  /\ pc = [c \in Clients |-> "idle"]
  /\ req = [c \in Clients |-> NoRequest]
  /\ out = [c \in Clients |-> NoOutcome]
  /\ trace = [c \in Clients |-> <<>>]
  /\ hist = [c \in Clients |-> NoHist]
  /\ ingest = [c \in Clients |-> NoIngest]
  /\ sets = [id \in VideoIds |-> <<>>]

SpecIngest == InitIngest /\ [][NextIngest]_vars

\* ------------------------------ extract_video_id alone, on parsed URLs
\* the host names, v parameters and paths of the URLs it is applied to
UrlHosts == {"www.youtube.com", "youtube.com", "m.youtube.com", "youtu.be", "example.com"}
UrlQueries == { <<>>, <<Id1>>, <<Id2>>, <<Id2, Id1>> }
\* "", "/", "/watch", "/ab1", "/z9", "/ab1/"
UrlPaths ==
  { <<>>, <<"/">>, <<"/", "w">>, <<"/">> \o Id1, <<"/">> \o Id2, <<"/">> \o Id1 \o <<"/">> }
AllUrls == { [hostname |-> h, v |-> q, path |-> p] : h \in UrlHosts, q \in UrlQueries,
                                                    p \in UrlPaths }

\* extract_video_id(url) is called: the id is returned or the error raised
ExtractVideoId(c) ==
  /\ pc[c] = "idle"
  /\ out[c] = NoOutcome
  /\ out' = [out EXCEPT ![c] =
               IF extract_video_id(req[c].url).ok
               THEN [kind |-> "id", video_id |-> extract_video_id(req[c].url).id]
               ELSE RaisedError("InvalidYouTubeURLError", "", "")]
  /\ pc' = [pc EXCEPT ![c] = "done"]
  /\ UNCHANGED <<now, settings, cbFile, cacheFiles, cb, req, trace, hist, ingest, sets>>

Extract == ExtractVideoId(Runner)

InitUrl ==
  /\ now = 0
  /\ settings = [circuit_breaker_threshold |-> 1, keys |-> CHOOSE k \in KeySets : TRUE,
                 cache_ttl_hours |-> TtlHours]
  /\ cbFile = NoFile
  /\ cacheFiles = [id \in VideoIds |-> NoFile]
  /\ cb = [c \in Clients |-> FreshState]
  /\ pc = [c \in Clients |-> "idle"]
  /\ req \in { [c \in Clients |-> IF c = Runner THEN [NoRequest EXCEPT !.url = u]
                                                ELSE NoRequest] : u \in AllUrls }
  /\ out = [c \in Clients |-> NoOutcome]
  /\ trace = [c \in Clients |-> <<>>]
  /\ hist = [c \in Clients |-> NoHist]
  /\ ingest = [c \in Clients |-> NoIngest]
  /\ sets = [id \in VideoIds |-> <<>>]

NextUrl == Extract

SpecUrl == InitUrl /\ [][NextUrl]_vars

\* ------- the same request made twice under the same conditions: by one
\* client with an order, by another with that order's known names alone
PairFirst == "p1"
PairSecond == "p2"
PairUrl == UrlWatch1

\* what the providers do when called, fixed for both requests
PairEnvs ==
  [direct : DirectOutcomes,
   supadata : { r \in SupadataOutcomes : r.ok => r.transcript = TGood },
   decodo : DecodoOutcomes,
   meta : MetaOutcomes]

InitPair ==
  /\ now = 0
  /\ settings \in { [circuit_breaker_threshold |-> T, keys |-> k,
                       cache_ttl_hours |-> TtlHours, env |-> e] :
                      T \in 1..MaxThreshold, k \in KeySets, e \in PairEnvs }
  /\ cbFile = NoFile
  /\ cacheFiles = [id \in VideoIds |-> NoFile]
  /\ cb = [c \in Clients |-> LoadState(NoFile)]
  /\ pc = [c \in Clients |-> "idle"]
  /\ req = [c \in Clients |-> NoRequest]
  /\ out = [c \in Clients |-> NoOutcome]
  /\ trace = [c \in Clients |-> <<>>]
  /\ hist = [c \in Clients |-> NoHist]
  /\ ingest = [c \in Clients |-> NoIngest]
  /\ sets = [id \in VideoIds |-> <<>>]

\* both requests find the cache empty: the second is made before the first
\* goes on, and is carried out once the first is done
PairTurn(c) ==
  IF c = PairFirst THEN pc[PairSecond] # "idle" ELSE pc[PairFirst] = "done"

PairCall ==
  \E po \in OrderOverrides : GetVideoMetadata(PairFirst, PairUrl, po, settings.env.meta)
PairCallKnown ==
  /\ pc[PairFirst] = "loop"
  /\ GetVideoMetadata(PairSecond, PairUrl, SelectSeq(req[PairFirst].order, IsKnown),
                      settings.env.meta)
PairUnknown == \E c \in Clients : PairTurn(c) /\ SkipUnknown(c)
PairGate == \E c \in Clients : PairTurn(c) /\ TryDirectGate(c)
PairFetch == \E c \in Clients : PairTurn(c) /\ TryDirectFetch(c, settings.env.direct)
PairSupadata == \E c \in Clients : PairTurn(c) /\ TrySupadata(c, settings.env.supadata)
PairDecodo == \E c \in Clients : PairTurn(c) /\ TryDecodo(c, settings.env.decodo)
PairAllFailed == \E c \in Clients : PairTurn(c) /\ Exhausted(c)
PairQualityGate == \E c \in Clients : PairTurn(c) /\ Validate(c)

NextPair ==
  \/ PairCall \/ PairCallKnown \/ PairUnknown \/ PairGate \/ PairFetch
  \/ PairSupadata \/ PairDecodo \/ PairAllFailed \/ PairQualityGate

SpecPair == InitPair /\ [][NextPair]_vars

\* ---------------------- validate_transcript_quality alone, on given texts
\* the transcripts it is applied to: the first n of thirty distinct words,
\* the first k of them said m times over, and the texts of the modelled runs
QualityTexts ==
  { Join(SubSeq(Fillers, 1, n)) : n \in 1..30 }
    \cup { Join(Repeat(SubSeq(Fillers, 1, k), m)) : k \in 1..4, m \in 2..8 }
    \cup { TGood, TOff, TLoop, TFrag, TShort }

\* validate_transcript_quality(transcript, video_title) is called
ValidateTranscriptQuality(c) ==
  /\ pc[c] = "idle"
  /\ out[c] = NoOutcome
  /\ out' = [out EXCEPT ![c] =
               [kind |-> "quality",
                issue |-> validate_transcript_quality(req[c].transcript, req[c].title)]]
  /\ pc' = [pc EXCEPT ![c] = "done"]
  /\ UNCHANGED <<now, settings, cbFile, cacheFiles, cb, req, trace, hist, ingest, sets>>

CheckQuality == ValidateTranscriptQuality(Runner)

InitQuality ==
  /\ now = 0
  /\ settings = [circuit_breaker_threshold |-> 1, keys |-> CHOOSE k \in KeySets : TRUE,
                 cache_ttl_hours |-> TtlHours]
  /\ cbFile = NoFile
  /\ cacheFiles = [id \in VideoIds |-> NoFile]
  /\ cb = [c \in Clients |-> FreshState]
  /\ pc = [c \in Clients |-> "idle"]
  /\ req \in { [c \in Clients |->
                  IF c = Runner THEN [NoRequest EXCEPT !.transcript = t, !.title = TitleCat]
                                ELSE NoRequest] : t \in QualityTexts }
  /\ out = [c \in Clients |-> NoOutcome]
  /\ trace = [c \in Clients |-> <<>>]
  /\ hist = [c \in Clients |-> NoHist]
  /\ ingest = [c \in Clients |-> NoIngest]
  /\ sets = [id \in VideoIds |-> <<>>]

NextQuality == CheckQuality

SpecQuality == InitQuality /\ [][NextQuality]_vars

\* -------------------- the cache alone, driven through its public methods
\* the results and provider names set() is called with
CacheResults ==
  { [video_id |-> Id1, title |-> TitleCat, channel_name |-> ChannelCats, url |-> UrlWatch1,
     transcript |-> TGood, source_language |-> "en", provider_used |-> "direct"],
    [video_id |-> Id2, title |-> PlaceholderTitle(Id2), channel_name |-> UnknownChannel,
     url |-> UrlMobile2, transcript |-> TOff, source_language |-> "de",
     provider_used |-> "supadata"] }
CacheProviders == {"direct", "supadata"}

\* what a call of a VideoCache method returned, for the caller: ret is the
\* result of get(), n the count invalidate() (0 or 1) or clear() returned,
\* total/valid/expired the counts of stats()
CacheReturned(op, id, ret, n, total, valid, expired) ==
  [kind |-> op, id |-> id, ret |-> ret, n |-> n, total |-> total, valid |-> valid,
   expired |-> expired, at |-> now]

\* get(video_id)
CacheApiGet(c, id) ==
  LET r == CacheGet(cacheFiles[id], now)
  IN /\ cacheFiles' = [cacheFiles EXCEPT ![id] = r.file]
     /\ sets' = [sets EXCEPT ![id] = IF r.file = NoFile THEN <<>> ELSE @]
     /\ out' = [out EXCEPT ![c] =
                  IF r.raised # "" THEN RaisedError(r.raised, "", "")
                  ELSE CacheReturned("get", id, r.ret, 0, 0, 0, 0)]
     /\ UNCHANGED <<now, settings, cbFile, cb, pc, req, trace, hist, ingest>>

\* set(video_id, metadata, provider)
CacheApiSet(c, id, metadata, provider) ==
  /\ cacheFiles' = [cacheFiles EXCEPT ![id] = CacheSet(metadata, provider, now)]
  /\ sets' = [sets EXCEPT ![id] = SetCall(metadata, provider)]
  /\ out' = [out EXCEPT ![c] = CacheReturned("set", id, <<>>, 0, 0, 0, 0)]
  /\ UNCHANGED <<now, settings, cbFile, cb, pc, req, trace, hist, ingest>>

\* invalidate(video_id)
CacheApiInvalidate(c, id) ==
  /\ cacheFiles' = [cacheFiles EXCEPT ![id] = NoFile]
  /\ sets' = [sets EXCEPT ![id] = <<>>]
  /\ out' = [out EXCEPT ![c] =
               CacheReturned("invalidate", id, <<>>,
                             IF cacheFiles[id] = NoFile THEN 0 ELSE 1, 0, 0, 0)]
  /\ UNCHANGED <<now, settings, cbFile, cb, pc, req, trace, hist, ingest>>

\* clear()
CacheApiClear(c) ==
  /\ cacheFiles' = [id \in VideoIds |-> NoFile]
  /\ sets' = [id \in VideoIds |-> <<>>]
  /\ out' = [out EXCEPT ![c] =
               CacheReturned("clear", <<>>, <<>>,
                             Cardinality({id \in VideoIds : cacheFiles[id] # NoFile}),
                             0, 0, 0)]
  /\ UNCHANGED <<now, settings, cbFile, cb, pc, req, trace, hist, ingest>>

\* the files stats() counts as valid
ValidFiles ==
  { id \in VideoIds : /\ cacheFiles[id].kind = "json"
                      /\ now - ParseTime(cacheFiles[id].data.cached_at)[1]
                           <= settings.cache_ttl_hours }

\* stats(): a file that is not an object raises as in get()
CacheApiStats(c) ==
  LET files == {id \in VideoIds : cacheFiles[id] # NoFile}
  IN /\ out' = [out EXCEPT ![c] =
                  IF \E id \in files : cacheFiles[id].kind = "array"
                  THEN RaisedError("TypeError", "", "")
                  ELSE CacheReturned("stats", <<>>, <<>>, 0, Cardinality(files),
                                     Cardinality(ValidFiles),
                                     Cardinality(files \ ValidFiles))]
     /\ UNCHANGED <<now, settings, cbFile, cacheFiles, cb, pc, req, trace, hist, ingest, sets>>

CacheUser == "p1"

Get == \E id \in VideoIds : CacheApiGet(CacheUser, id)
Set == \E id \in VideoIds, r \in CacheResults, p \in CacheProviders : CacheApiSet(CacheUser, id, r, p)
Invalidate == \E id \in VideoIds : CacheApiInvalidate(CacheUser, id)
Clear == CacheApiClear(CacheUser)
Stats == CacheApiStats(CacheUser)

\* VideoCache(cache_dir, ttl_hours) on an empty directory, for every TTL
\* from 0 up
InitCache ==
  /\ now = 0
  /\ settings \in { [circuit_breaker_threshold |-> 1, keys |-> k, cache_ttl_hours |-> h] :
                      k \in KeySets, h \in 0..TtlHours }
  /\ cbFile = NoFile
  /\ cacheFiles = [id \in VideoIds |-> NoFile]
  /\ cb = [c \in Clients |-> LoadState(NoFile)]
  /\ pc = [c \in Clients |-> "idle"]
  /\ req = [c \in Clients |-> NoRequest]
  /\ out = [c \in Clients |-> NoOutcome]
  /\ trace = [c \in Clients |-> <<>>]
  /\ hist = [c \in Clients |-> NoHist]
  /\ ingest = [c \in Clients |-> NoIngest]
  /\ sets = [id \in VideoIds |-> <<>>]

NextCache == Get \/ Set \/ Invalidate \/ Clear \/ Stats \/ Tick

SpecCache == InitCache /\ [][NextCache]_vars

\* ================================================================== claims
IsAttempt(e) == e.ev # "metadata"

\* the provider attempts of client c's current call, in the order made
Attempts(c) == SelectSeq(trace[c], IsAttempt)
AttemptNames(c) == [i \in 1..Len(Attempts(c)) |-> Attempts(c)[i].p]
\* the known provider names among the first n of the order
KnownPrefix(c, n) == SelectSeq(SubSeq(req[c].order, 1, n), IsKnown)
NoneReturned(att, n) == \A i \in 1..n : att[i].ev # "returned"

\* C1: fallback ordering.  While the loop runs, the providers attempted so
\* far are exactly the known names of the order before the current position,
\* in that order, and none of them returned a transcript.  When the loop has
\* returned, the attempts are the known names up to the winning position,
\* only the last of them returned, no provider after it was attempted, and
\* provider_used (of the loop's result and of the result handed to the
\* caller) is the name at the winning position.
C1_FallbackOrdering ==
  \A c \in Clients :
    LET att == Attempts(c)
        r == req[c]
    IN /\ pc[c] \in {"loop", "direct"} =>
            /\ AttemptNames(c) = KnownPrefix(c, r.idx - 1)
            /\ NoneReturned(att, Len(att))
       /\ (pc[c] = "validate" \/ (pc[c] = "done" /\ r.provider # "")) =>
            /\ AttemptNames(c) = KnownPrefix(c, r.idx)
            /\ att # <<>>
            /\ att[Len(att)].ev = "returned"
            /\ NoneReturned(att, Len(att) - 1)
            /\ r.provider = r.order[r.idx]
            /\ att[Len(att)].p = r.provider
       /\ (pc[c] = "done" /\ r.provider # "" /\ out[c].kind = "ok") =>
            out[c].result[1].provider_used = r.order[r.idx]

\* order [direct, supadata, decodo]: direct raised, supadata returned and
\* decodo was never attempted
C1_Witness ==
  \E c \in Clients :
    /\ pc[c] = "done"
    /\ out[c].kind = "ok"
    /\ req[c].order = DefaultOrder
    /\ out[c].result[1].provider_used = "supadata"
    /\ Len(Attempts(c)) = 2
    /\ Attempts(c)[1] = [p |-> "direct", ev |-> "raised", msg |-> "No transcript available"]

Threshold == settings.circuit_breaker_threshold

\* C2: the threshold.  A breaker that started fresh (Closed, count 0) and
\* has since only had record_failure() calls (and is_open() queries) is
\* Closed, and is_open() returns false, as long as fewer than T failures were
\* recorded; the T-th failure leaves it Open with is_open() returning true;
\* from then on it is not Closed.
C2_OpensAtThreshold ==
  \A c \in Clients :
    hist[c].fresh =>
      /\ hist[c].run < Threshold =>
           /\ cb[c].state = "CLOSED"
           /\ ~is_open(cb[c], now).ret
           /\ (hist[c].op = "is_open" => ~hist[c].ret)
      /\ hist[c].run >= Threshold => cb[c].state # "CLOSED"
      /\ (hist[c].run = Threshold /\ hist[c].op = "record_failure") =>
           /\ cb[c].state = "OPEN"
           /\ is_open(cb[c], hist[c].at).ret
           /\ is_open(cb[c], hist[c].at).state.state = "OPEN"

\* the T-th consecutive failure, for the largest threshold, has just opened it
C2_Witness ==
  \E c \in Clients :
    /\ hist[c].fresh
    /\ Threshold = MaxThreshold
    /\ hist[c].run = Threshold
    /\ hist[c].op = "record_failure"
    /\ cb[c].state = "OPEN"

\* C3: a success in Closed.  record_success() on a Closed breaker leaves it
\* Closed with failure count 0; and record_failure() on a Closed breaker
\* opens it exactly when it is the T-th failure recorded since the last
\* success (or reset, or fresh start), so failures from before a success
\* never count.
C3_SuccessResetsCount ==
  \A c \in Clients :
    hist[c].prev = "CLOSED" =>
      /\ hist[c].op = "record_success" =>
           cb[c].state = "CLOSED" /\ cb[c].failure_count = 0
      /\ hist[c].op = "record_failure" =>
           /\ (cb[c].state = "OPEN") = (hist[c].run = Threshold)
           /\ cb[c].state # "OPEN" => cb[c].state = "CLOSED"

\* opened by a run of T failures that began after a success
C3_Witness ==
  \E c \in Clients :
    /\ ~hist[c].fresh
    /\ hist[c].prev = "CLOSED"
    /\ hist[c].op = "record_failure"
    /\ hist[c].run = Threshold
    /\ Threshold = MaxThreshold
    /\ cb[c].state = "OPEN"

\* C4: the quarantine.  When is_open() is called on an Open breaker, then
\* if less than the timeout has passed since the breaker went Open the call
\* returned true and left it Open, and otherwise the call returned false and
\* left it Half-Open.
C4_OpenUntilTimeout ==
  \A c \in Clients :
    (hist[c].op = "is_open" /\ hist[c].prev = "OPEN" /\ hist[c].entered # <<>>) =>
      IF hist[c].at - hist[c].entered[1] < TimeoutHours
      THEN hist[c].ret /\ cb[c].state = "OPEN"
      ELSE ~hist[c].ret /\ cb[c].state = "HALF_OPEN"

\* C5: the probe.  The call after Half-Open resolves it: record_success()
\* leaves the breaker Closed with failure count 0; record_failure() leaves it
\* Open with the open timestamp set to the time of that call, so is_open()
\* blocks for the whole timeout from then, whatever the count and threshold.
C5_HalfOpenResolved ==
  \A c \in Clients :
    hist[c].prev = "HALF_OPEN" =>
      /\ hist[c].op = "record_success" =>
           cb[c].state = "CLOSED" /\ cb[c].failure_count = 0
      /\ hist[c].op = "record_failure" =>
           /\ cb[c].state = "OPEN"
           /\ cb[c].opened_at = <<hist[c].at>>
           /\ \A t \in hist[c].at..(hist[c].at + TimeoutHours - 1) :
                is_open(cb[c], t).ret /\ is_open(cb[c], t).state = cb[c]

\* a failed probe has reopened the circuit
C5_Witness ==
  \E c \in Clients :
    /\ hist[c].prev = "HALF_OPEN"
    /\ hist[c].op = "record_failure"
    /\ cb[c].state = "OPEN"

\* the clients that were let through to the direct provider by the
\* Half-Open breaker as it is persisted now, and have not recorded the
\* outcome yet
Probing ==
  { c \in Clients : /\ pc[c] = "direct"
                    /\ cb[c].state = "HALF_OPEN"
                    /\ cbFile = SaveState(cb[c]) }

\* C6: one probe.  While the breaker is Half-Open (from entering Half-Open
\* to the next recorded outcome) at most one client has been told "not
\* blocked" and is calling the direct provider.
C6_OneProbe == Cardinality(Probing) <= 1

\* the cache holds an entry for this id that has not outlived the TTL
Unexpired(id) ==
  /\ cacheFiles[id].kind = "json"
  /\ now - cacheFiles[id].data.cached_at.iso <= settings.cache_ttl_hours

\* C7: a cache hit short-circuits everything.  When get_video_metadata is
\* called with a URL whose video id has an unexpired cache entry, the call
\* returns that entry's result at once: no metadata fetch and no provider
\* attempt is made, the call never reaches the quality gate, and the breaker
\* (in memory and on disk) and the cache are left as they were.
C7_CacheHitShortCircuits ==
  [][\A c \in Clients :
       LET parsed == extract_video_id(req'[c].url)
       IN (pc[c] = "idle" /\ pc'[c] # "idle" /\ parsed.ok /\ Unexpired(parsed.id)) =>
            /\ out'[c] = ReturnedResult(cacheFiles[parsed.id].data.metadata)
            /\ trace'[c] = <<>>
            /\ pc'[c] = "done"
            /\ cb' = cb
            /\ cbFile' = cbFile
            /\ cacheFiles' = cacheFiles
            /\ hist' = hist]_vars

\* a call served from an entry whose age is exactly the TTL
C7_Witness ==
  \E c \in Clients :
    /\ pc[c] = "done"
    /\ out[c].kind = "ok"
    /\ trace[c] = <<>>
    /\ req[c].provider = ""
    /\ now - cacheFiles[req[c].video_id].data.cached_at.iso = TtlHours

\* the transcript passes both checks against the title
Passes(transcript, title) ==
  /\ validate_transcript_quality(transcript, title) = NoIssue
  /\ check_transcript_relevance(transcript, title)

\* C8: the quality gate blocks caching.  Every entry written to the cache
\* is written by a call at its quality gate and holds that call's transcript
\* and title, which pass both checks; and when the winning transcript fails
\* a check, the call raises TranscriptUnavailableError, returns no result
\* and leaves the cache as it was.
C8_QualityGateBlocksCaching ==
  [][/\ \A id \in VideoIds :
          (cacheFiles'[id] # cacheFiles[id] /\ cacheFiles'[id].kind = "json") =>
            \E c \in Clients :
              /\ pc[c] = "validate"
              /\ pc'[c] = "done"
              /\ req[c].video_id = id
              /\ cacheFiles'[id].data.metadata.transcript = req[c].transcript
              /\ cacheFiles'[id].data.metadata.title = req[c].title
              /\ Passes(req[c].transcript, req[c].title)
     /\ \A c \in Clients :
          (pc[c] = "validate" /\ pc'[c] # "validate"
             /\ ~Passes(req[c].transcript, req[c].title)) =>
            /\ out'[c].kind = "TranscriptUnavailableError"
            /\ out'[c].result = <<>>
            /\ cacheFiles' = cacheFiles]_vars

\* a provider returned a transcript, the gate rejected it, nothing is cached
C8_Witness ==
  \E c \in Clients :
    /\ pc[c] = "done"
    /\ out[c].kind = "TranscriptUnavailableError"
    /\ out[c].reason = "Transcript quality too low"
    /\ Attempts(c) # <<>>
    /\ Attempts(c)[Len(Attempts(c))].ev = "returned"
    /\ cacheFiles[req[c].video_id] = NoFile

\* the failures of the attempts, each as "{provider}: {message}", joined by "; "
RECURSIVE AttemptList(_)
AttemptList(att) ==
  IF att = <<>> THEN ""
  ELSE att[1].p \o ": " \o att[1].msg
       \o (IF Len(att) = 1 THEN "" ELSE "; " \o AttemptList(Tail(att)))

\* C9: the exhaustion message is complete.  When the call raises "All
\* providers failed", every known provider of the order was attempted, none
\* returned, and the message lists the attempts in the order made, each as
\* "{provider}: {message}" with its own failure reason, joined by "; ".
C9_ExhaustionMessageComplete ==
  \A c \in Clients :
    (pc[c] = "done" /\ out[c].reason = "All providers failed") =>
      /\ out[c].kind = "TranscriptUnavailableError"
      /\ AttemptNames(c) = KnownPrefix(c, Len(req[c].order))
      /\ NoneReturned(Attempts(c), Len(Attempts(c)))
      /\ Len(req[c].errors) = Len(Attempts(c))
      /\ out[c].text = AttemptList(Attempts(c))

\* all three providers failed: a circuit-open skip, a provider error and a
\* provider that is not configured
C9_Witness ==
  \E c \in Clients :
    /\ pc[c] = "done"
    /\ out[c].reason = "All providers failed"
    /\ Len(Attempts(c)) = 3
    /\ Attempts(c)[1].ev = "skipped"
    /\ Attempts(c)[2].ev = "raised"
    /\ Attempts(c)[3].ev = "unconfigured"

\* the loop of client c stands at the direct provider and the breaker is in
\* its quarantine
AtDirectWhileOpen(c) ==
  /\ InLoop(c)
  /\ Current(c) = "direct"
  /\ cb[c].state = "OPEN"
  /\ cb[c].opened_at # <<>>
  /\ now - cb[c].opened_at[1] < TimeoutHours

\* C10: the circuit-open skip.  When the loop reaches the direct provider
\* while the breaker is Open and the timeout has not elapsed, the step taken
\* does not call the direct provider, leaves the breaker (mode, failure
\* count, timestamps; in memory and on disk) as it was, appends "direct:
\* circuit breaker open" to the error list and moves on to the next provider.
C10_CircuitOpenSkip ==
  [][\A c \in Clients :
       (AtDirectWhileOpen(c) /\ (req'[c] # req[c] \/ pc'[c] # pc[c])) =>
         /\ cb'[c] = cb[c]
         /\ cbFile' = cbFile
         /\ trace'[c] = Append(trace[c], [p |-> "direct", ev |-> "skipped",
                                          msg |-> "circuit breaker open"])
         /\ req'[c].errors = Append(req[c].errors, "direct: circuit breaker open")
         /\ req'[c].idx = req[c].idx + 1
         /\ pc'[c] = "loop"]_vars

\* the direct provider was skipped and the loop stands at the next provider
C10_Witness ==
  \E c \in Clients :
    /\ InLoop(c)
    /\ trace[c] # <<>>
    /\ trace[c][Len(trace[c])].ev = "skipped"
    /\ Current(c) = "supadata"
    /\ cb[c].state = "OPEN"

\* C11: missing metadata never blocks.  When a call ran on the placeholder
\* title "Video {id}" / "Unknown Channel" (the metadata provider was not
\* configured or failed), a provider returned a transcript and that
\* transcript passes validate_transcript_quality, the call returns a result.
C11_PlaceholderNeverBlocks ==
  \A c \in Clients :
    (/\ pc[c] = "done"
     /\ req[c].provider # ""
     /\ req[c].title = PlaceholderTitle(req[c].video_id)
     /\ req[c].channel_name = UnknownChannel
     /\ validate_transcript_quality(req[c].transcript, req[c].title) = NoIssue) =>
      out[c].kind = "ok"

\* the calls of VideoCache methods in this step, by the method called
Calls(op) == { c \in Clients : out'[c] # out[c] /\ out'[c].kind = op }

\* the age, at the time of this step, of the entry set(id, ...) last wrote
Age(id) == now - sets[id][1].at

\* C12: the cache round trip.  A get(id) made while the age of the entry
\* that the last set(id, r, p) wrote does not exceed the TTL returns r,
\* equal in every field, and leaves the files as they are; the last set
\* wins and the age counts from it.  A set(id, r, p) touches the file of id
\* only, and a get right after it, at the same clock reading, is such a get
\* whenever the TTL is positive.
C12_CacheRoundTrip ==
  [][/\ \A c \in Calls("get") :
          LET id == out'[c].id
          IN (sets[id] # <<>> /\ Age(id) <= settings.cache_ttl_hours) =>
               /\ out'[c].ret = <<sets[id][1].metadata>>
               /\ cacheFiles' = cacheFiles
     /\ \A c \in Calls("set") :
          LET id == out'[c].id
          IN /\ \A other \in VideoIds \ {id} : cacheFiles'[other] = cacheFiles[other]
             /\ sets'[id] # <<>>
             /\ sets'[id][1].at = now
             /\ cacheFiles'[id].kind = "json"
             /\ cacheFiles'[id].data.provider = sets'[id][1].provider]_vars

\* a get, at the very end of the TTL, of an entry that was set under a
\* provider name other than the result's provider_used
C12_Witness ==
  \E c \in Clients :
    /\ out[c].kind = "get"
    /\ out[c].ret # <<>>
    /\ sets[out[c].id] # <<>>
    /\ out[c].ret = <<sets[out[c].id][1].metadata>>
    /\ sets[out[c].id][1].provider # out[c].ret[1].provider_used
    /\ settings.cache_ttl_hours > 0
    /\ out[c].at - sets[out[c].id][1].at = settings.cache_ttl_hours

\* C13: lazy expiry.  A get(id) made when the age of the stored entry
\* exceeds the TTL returns absent and removes the file; stats() counts as
\* valid exactly the stored entries whose age does not exceed the TTL, so an
\* entry removed by such a get is no longer counted; and with TTL 0 every
\* get of a stored entry, an immediate one after the set included, is a miss.
C13_LazyExpiry ==
  [][/\ \A c \in Calls("get") :
          LET id == out'[c].id
          IN /\ (sets[id] # <<>> /\ Age(id) > settings.cache_ttl_hours) =>
                  out'[c].ret = <<>> /\ cacheFiles'[id] = NoFile
             /\ (sets[id] # <<>> /\ settings.cache_ttl_hours = 0) =>
                  out'[c].ret = <<>>
     /\ \A c \in Calls("stats") :
          /\ out'[c].valid =
               Cardinality({ id \in VideoIds :
                               sets[id] # <<>> /\ Age(id) <= settings.cache_ttl_hours })
          /\ cacheFiles' = cacheFiles]_vars

\* C14: the breaker state survives restarts.  The state a new
\* CircuitBreaker would load from the state file is always the state the
\* running instance holds in memory (mode, failure count and timestamps);
\* after record_success(), record_failure() and reset() the file is the
\* dump of that state; and an instance that was just constructed on an
\* existing file holds what the file records.
C14_StateSurvivesRestart ==
  /\ LoadState(cbFile) = cb[ApiClient]
  /\ hist[ApiClient].op \in {"record_success", "record_failure", "reset"} =>
       cbFile = SaveState(cb[ApiClient])
  /\ (hist[ApiClient].op = "none" /\ cbFile # NoFile) =>
       SaveState(cb[ApiClient]) = cbFile

\* a new instance starts Half-Open, with the failures and timestamps the
\* previous one left
C14_Witness ==
  /\ hist[ApiClient].op = "none"
  /\ cb[ApiClient].state = "HALF_OPEN"
  /\ cb[ApiClient].failure_count = Threshold
  /\ cb[ApiClient].opened_at # <<>>
  /\ cbFile # NoFile

\* C15: damaged stored data is never surfaced.  Whatever a cache entry file
\* holds that is not a record, the get of a call removes it and reports
\* absent, so the call goes on to fetch as on a miss; whatever the breaker's
\* state file holds that is not a record, constructing a client gives a
\* fresh Closed breaker with failure count 0; neither raises.
C15_DamageNeverSurfaced ==
  [][\A c \in Clients :
       LET parsed == extract_video_id(req'[c].url)
       IN /\ (pc[c] = "idle" /\ pc'[c] # "idle" /\ parsed.ok
                /\ cacheFiles[parsed.id] \in DamagedFiles) =>
               /\ cacheFiles'[parsed.id] = NoFile
               /\ pc'[c] = "loop"
               /\ out'[c] = NoOutcome
          /\ (pc[c] = "new" /\ cbFile \in DamagedFiles
                /\ (pc'[c] # pc[c] \/ out'[c] # out[c])) =>
               /\ pc'[c] = "idle"
               /\ cb'[c] = FreshState
               /\ out'[c] = NoOutcome]_vars

\* the errors the spec lets get_video_metadata raise
AllowedErrors ==
  { RaisedError("InvalidYouTubeURLError", "", "") }
  \cup { e \in { out[c] : c \in Clients } :
           /\ e.kind = "TranscriptUnavailableError"
           /\ e.reason \in { "All providers failed", "Transcript quality too low",
                             "Transcript content does not match video title" } }

\* C16: the error policy.  A finished get_video_metadata call either
\* returned a result or raised the invalid-URL error, the all-providers-
\* failed error or a quality/relevance rejection; nothing else reaches the
\* caller.
C16_OnlyListedErrors ==
  \A c \in Clients :
    pc[c] = "done" => (out[c].kind = "ok" \/ out[c] \in AllowedErrors)

\* C17: a URL from which no video id can be extracted makes ingest() raise
\* the invalid-URL error after its first attempt: no second attempt is begun
C17_InvalidInputNotRetried ==
  \A c \in Clients :
    (ingest[c].status # "none" /\ ~extract_video_id(ingest[c].url).ok)
      => ingest[c].attempts = 1

\* the four accepted shapes: host/watch?v=ID on the three youtube.com hosts
\* and youtu.be/ID, with the video each refers to
IsWatchShape(url) ==
  /\ url.hostname \in {"www.youtube.com", "youtube.com", "m.youtube.com"}
  /\ url.path = <<"/", "w">>
  /\ url.v # <<>>
IsShortShape(url) ==
  /\ url.hostname = "youtu.be"
  /\ Len(url.path) > 1
  /\ url.path[1] = "/"
  /\ \A i \in 2..Len(url.path) : url.path[i] # "/"
VideoOf(url) == IF IsWatchShape(url) THEN url.v[1] ELSE Tail(url.path)

\* C18: applied to a URL of one of the four accepted shapes, extract_video_id
\* returns the id of the video the URL refers to (so the same id for every
\* shape of one video); applied to anything else it raises
\* InvalidYouTubeURLError and returns nothing
C18_IdentityParsing ==
  \A c \in Clients :
    (pc[c] = "done" /\ out[c].kind \in {"id", "InvalidYouTubeURLError"})
      => IF IsWatchShape(req[c].url) \/ IsShortShape(req[c].url)
         THEN out[c].kind = "id" /\ out[c].video_id = VideoOf(req[c].url)
         ELSE out[c].kind = "InvalidYouTubeURLError"

\* C19: success populates the cache.  When get_video_metadata returns a
\* result it obtained from a provider (a cache miss), the cache holds, under
\* the request's video id, an entry whose stored result is the returned
\* result and whose recorded provider is the result's provider_used, and a
\* get of that id at any time within the TTL returns the result.
C19_SuccessPopulatesCache ==
  [][\A c \in Clients :
       (pc[c] = "validate" /\ pc'[c] = "done" /\ out'[c].kind = "ok") =>
         LET entry == cacheFiles'[req[c].video_id]
             result == out'[c].result[1]
         IN /\ entry.kind = "json"
            /\ entry.data.metadata = result
            /\ entry.data.provider = result.provider_used
            /\ result.video_id = req[c].video_id
            /\ \A t \in now..(now + settings.cache_ttl_hours) :
                 CacheGet(entry, t).ret = <<result>>]_vars

\* a result obtained from a provider has been returned and is in the cache
C19_Witness ==
  \E c \in Clients :
    /\ pc[c] = "done"
    /\ out[c].kind = "ok"
    /\ Attempts(c) # <<>>
    /\ Attempts(c)[Len(Attempts(c))].ev = "returned"
    /\ cacheFiles[req[c].video_id].kind = "json"
    /\ cacheFiles[req[c].video_id].data.metadata = out[c].result[1]
    /\ out[c].result[1].provider_used = "supadata"

\* the error get_video_metadata raises when the quality or the relevance
\* check rejects a transcript
IsRejection(e) ==
  /\ e.kind = "TranscriptUnavailableError"
  /\ e.reason \in {"Transcript quality too low",
                   "Transcript content does not match video title"}

\* C20: a quality rejection is terminal for the request.  When the
\* transcript provider N returned is rejected, N's return is the last thing
\* any provider did for the request: no later provider is attempted, and
\* ingest() begins no further attempt (which would call N again) but gives
\* the caller the rejection.
C20_QualityRejectionTerminal ==
  \A c \in Clients :
    /\ (pc[c] = "done" /\ IsRejection(out[c])) =>
         /\ Attempts(c) # <<>>
         /\ Attempts(c)[Len(Attempts(c))].ev = "returned"
         /\ Attempts(c)[Len(Attempts(c))].p = req[c].provider
    /\ ~IsRejection(ingest[c].last)

\* C21: breaker bookkeeping in the fallback loop.  The step in which the
\* direct provider is called makes exactly one call on the breaker:
\* record_success() if the provider returned a transcript, record_failure()
\* if it raised; the breaker in memory and on disk is what that call leaves.
\* A step at the supadata or decodo provider (returned, raised or not
\* configured) leaves the breaker, its file and its history as they were.
C21_BreakerBookkeeping ==
  [][\A c \in Clients :
       /\ (pc[c] = "direct" /\ pc'[c] # "direct") =>
            LET e == trace'[c][Len(trace'[c])]
            IN /\ Len(trace'[c]) = Len(trace[c]) + 1
               /\ e.p = "direct"
               /\ e.ev \in {"returned", "raised"}
               /\ hist'[c].op = IF e.ev = "returned" THEN "record_success"
                                                    ELSE "record_failure"
               /\ hist'[c].at = now
               /\ cb'[c] = IF e.ev = "returned"
                           THEN record_success(cb[c])
                           ELSE record_failure(cb[c], now, settings.circuit_breaker_threshold)
               /\ cbFile' = SaveState(cb'[c])
       /\ (InLoop(c) /\ Current(c) \in {"supadata", "decodo"} /\ trace'[c] # trace[c]) =>
            /\ cb' = cb
            /\ cbFile' = cbFile
            /\ hist' = hist]_vars

\* the direct provider raised (one failure recorded) and supadata was then
\* attempted, the record of the failure still being the breaker's last call
C21_Witness ==
  \E c \in Clients :
    /\ Len(Attempts(c)) >= 2
    /\ Attempts(c)[1].p = "direct"
    /\ Attempts(c)[1].ev = "raised"
    /\ Attempts(c)[2].p = "supadata"
    /\ hist[c].op = "record_failure"
    /\ cb[c].failure_count >= 1
    /\ cbFile = SaveState(cb[c])

\* C22: when the direct provider's transcript is rejected by the quality or
\* the relevance check, the breaker's last call is the record_success() of
\* that fetch, which left it Closed with a failure count of 0, and the
\* rejection changes neither the breaker nor its file.
C22_RejectionIsNoFailure ==
  [][\A c \in Clients :
       (pc[c] = "validate" /\ pc'[c] = "done" /\ req[c].provider = "direct"
          /\ IsRejection(out'[c])) =>
         /\ hist[c].op = "record_success"
         /\ cb[c].state = "CLOSED"
         /\ cb[c].failure_count = 0
         /\ cb'[c] = cb[c]
         /\ cbFile' = cbFile
         /\ hist'[c] = hist[c]]_vars

\* a probe made in Half-Open returned a transcript that was then rejected
C22_Witness ==
  \E c \in Clients :
    /\ pc[c] = "done"
    /\ IsRejection(out[c])
    /\ req[c].provider = "direct"
    /\ hist[c].op = "record_success"
    /\ hist[c].prev = "HALF_OPEN"
    /\ cb[c].state = "CLOSED"
    /\ cb[c].failure_count = 0

\* C23: whenever the breaker is Open its open timestamp is set, and so an
\* is_open() made once the timeout has elapsed since then returns false
C23_OpenHasTimestamp ==
  \A c \in Clients :
    /\ cb[c].state = "OPEN" => cb[c].opened_at # <<>>
    /\ (hist[c].op = "is_open" /\ hist[c].prev = "OPEN" /\ hist[c].entered # <<>>
          /\ hist[c].at - hist[c].entered[1] >= TimeoutHours) => ~hist[c].ret

\* C27: in every state reached through the breaker's public methods from
\* the fresh state, a Closed breaker's failure count is below the threshold
C27_ClosedBelowThreshold ==
  \A c \in Clients :
    cb[c].state = "CLOSED" => cb[c].failure_count < Threshold

\* a Closed breaker one failure short of opening, the threshold being above 1
C27_Witness ==
  \E c \in Clients :
    /\ hist[c].op = "record_failure"
    /\ cb[c].state = "CLOSED"
    /\ cb[c].failure_count >= 1
    /\ cb[c].failure_count = Threshold - 1

\* C28: the open timestamp is the time the breaker last went from another
\* mode into Open: after a record_failure() made on a breaker that was
\* already Open, the open timestamp is still the time it entered Open
C28_OpenTimestampKept ==
  \A c \in Clients :
    (hist[c].op = "record_failure" /\ hist[c].prev = "OPEN" /\ hist[c].entered # <<>>) =>
      cb[c].opened_at = hist[c].entered

\* C24: retry amplification.  An ingest() call that began on a breaker file
\* without failures, with the direct provider in its order and a threshold
\* of at most 3, and in whose three attempts every provider failed, ends
\* with the breaker Open, in the last client and on disk.
C24_RetryAmplification ==
  \A c \in Clients :
    (/\ ingest[c].status = "raised"
     /\ ingest[c].fresh
     /\ ingest[c].attempts = StopAfterAttempt
     /\ ingest[c].exhausted = StopAfterAttempt - 1
     /\ out[c].reason = "All providers failed"
     /\ \E i \in 1..Len(req[c].order) : req[c].order[i] = "direct"
     /\ Threshold <= StopAfterAttempt) =>
      /\ cb[c].state = "OPEN"
      /\ LoadState(cbFile).state = "OPEN"

\* the threshold is 3 and the third attempt's failure opened the breaker
C24_Witness ==
  \E c \in Clients :
    /\ ingest[c].status = "raised"
    /\ ingest[c].fresh
    /\ ingest[c].attempts = StopAfterAttempt
    /\ ingest[c].exhausted = StopAfterAttempt - 1
    /\ out[c].reason = "All providers failed"
    /\ Threshold = StopAfterAttempt
    /\ cb[c].state = "OPEN"
    /\ cb[c].failure_count = StopAfterAttempt
    /\ cb[c].opened_at = cb[c].last_failure_time
    /\ LoadState(cbFile) = cb[c]

\* C25: no lost breaker updates.  The persisted failure counter counts the
\* failures recorded, by whichever client, since the last recorded success:
\* a step in which a client's call of the direct provider fails raises the
\* persisted counter by one, a step in which it succeeds leaves it 0, and a
\* persisted counter that has reached the threshold belongs to a breaker
\* that is not Closed.
C25_NoLostUpdates ==
  [][\A c \in Clients :
       (pc[c] = "direct" /\ pc'[c] # "direct") =>
         /\ LoadState(cbFile').failure_count =
              IF pc'[c] = "loop" THEN LoadState(cbFile).failure_count + 1 ELSE 0
         /\ LoadState(cbFile').failure_count >= Threshold =>
              LoadState(cbFile').state # "CLOSED"]_vars

\* the two requests of a pair are done and came out alike: the same result
\* or error, the same provider calls with the same outcomes, the same error
\* list and the same breaker state
PairDone == pc[PairFirst] = "done" /\ pc[PairSecond] = "done"
PairAlike ==
  /\ out[PairFirst] = out[PairSecond]
  /\ Attempts(PairFirst) = Attempts(PairSecond)
  /\ req[PairFirst].errors = req[PairSecond].errors
  /\ cb[PairFirst] = cb[PairSecond]

\* C26 as stated: for every order, the request comes out as the request
\* made with the order's known names alone
C26_AsStated == PairDone => PairAlike

\* C26: unknown names are skipped.  For every order in which at least one
\* name is known, the request comes out as the request made with the known
\* names alone; for an order without a known name no provider is called and
\* the request fails with an empty error list (the request made with no
\* names at all falls back to the configured order).
C26_UnknownNamesSkipped ==
  /\ (PairDone /\ SelectSeq(req[PairFirst].order, IsKnown) # <<>>) => PairAlike
  /\ \A c \in Clients :
       (pc[c] = "done" /\ out[c].kind # "none"
          /\ SelectSeq(req[c].order, IsKnown) = <<>>) =>
         /\ Attempts(c) = <<>>
         /\ out[c] = RaisedError("TranscriptUnavailableError", "All providers failed", "")

\* an order with an unknown name between two known ones, the first of which
\* failed and the second returned
C26_Witness ==
  /\ PairDone
  /\ PairAlike
  /\ req[PairFirst].order = <<"direct", "bogus", "decodo">>
  /\ req[PairSecond].order = <<"direct", "decodo">>
  /\ out[PairFirst].kind = "ok"
  /\ Len(Attempts(PairFirst)) = 2
  /\ Len(req[PairFirst].errors) = 1

\* all the 3-word phrases of a text, overlapping ones included: one for
\* every word that is followed, across whitespace only, by two more words
OverlappingPhrases(s) ==
  LET starts == { i \in 1..Len(s) :
                    IsWordChar(s[i]) /\ (i = 1 \/ ~IsWordChar(s[i - 1])) }
      spanOf(i) ==
        LET w1 == RunLen(s, i, TRUE)
            s1 == RunLen(s, i + w1, FALSE)
            w2 == RunLen(s, i + w1 + s1, TRUE)
            s2 == RunLen(s, i + w1 + s1 + w2, FALSE)
            w3 == RunLen(s, i + w1 + s1 + w2 + s2, TRUE)
        IN IF s1 > 0 /\ w2 > 0 /\ s2 > 0 /\ w3 > 0
           THEN w1 + s1 + w2 + s2 + w3 ELSE 0
      found == { i \in starts : spanOf(i) > 0 }
      RECURSIVE InOrder(_)
      InOrder(is) ==
        IF is = {} THEN <<>>
        ELSE LET i == CHOOSE x \in is : \A y \in is : x <= y
             IN <<SubSeq(s, i, i + spanOf(i) - 1)>> \o InOrder(is \ {i})
  IN InOrder(found)

\* the length and the mean token length checks pass
PassesSizeChecks(transcript) ==
  /\ Len(Strip(transcript)) >= MinLength
  /\ Split(transcript) # <<>> => 2 * SumLen(Split(transcript)) >= MinAvgTimes2 * Len(Split(transcript))

\* C29: for a transcript that passes the length and the mean token length
\* checks, validate_transcript_quality reports excessive repetition exactly
\* when, among all the overlapping 3-word phrases of the case-folded text,
\* the most frequent one makes up more than 10% of the occurrences, and
\* otherwise returns none
C29_RepetitionRule ==
  \A c \in Clients :
    (pc[c] = "done" /\ out[c].kind = "quality" /\ PassesSizeChecks(req[c].transcript)) =>
      LET phrases == OverlappingPhrases(Lower(req[c].transcript))
      IN IF phrases # <<>>
            /\ 100 * MostCommonCount(phrases) > RepetitionPct * Len(phrases)
         THEN out[c].issue = "excessive repetition"
         ELSE out[c].issue = NoIssue

\* C30: a transcript that passes the length and the mean token length
\* checks and whose extracted 3-word phrases are pairwise distinct passes,
\* whatever its number of words
C30_NoRepetitionPasses ==
  \A c \in Clients :
    (/\ pc[c] = "done"
     /\ out[c].kind = "quality"
     /\ PassesSizeChecks(req[c].transcript)
     /\ LET phrases == FindPhrases(Lower(req[c].transcript))
        IN \A i, j \in 1..Len(phrases) : phrases[i] = phrases[j] => i = j) =>
      out[c].issue = NoIssue

====
